---- MODULE Spec2Model ----
(***************************************************************************)
(* Polymarket clear-win bot: the Gateway's retry loop and order placement  *)
(* (polymarket_client.py), the Scanner's filter pipeline (strategy.py),    *)
(* the Sizer (risk.py) and the Execution Loop (main.py).                   *)
(*                                                                         *)
(* Numbers.  Prices are in thousandths (0.97 is 970, 0.995 is 995, 1.0 is  *)
(* PriceOne); sizes, balances and capital are in whole units; hours are    *)
(* whole hours relative to the scan's `now`.  An Optional[float] is a      *)
(* sequence of length 0 (None) or 1.                                       *)
(***************************************************************************)
EXTENDS Integers, Sequences, FiniteSets, TLC

VARIABLES
    pc,              \* where the process is: main.py / the function under study
    mode,            \* config.mode: "paper" or "live"
    once,            \* args.once
    trading,         \* config.trading : TradingConfig
    usdc_balance,    \* what get_balances() reports under "USDC"
    open_positions,  \* main.py: the ledger, a list of positions
    trades,          \* rows appended to trades.csv
    orders,          \* place_order calls that returned, in order
    candidates,      \* run_once: the candidates of the current cycle
    idx,             \* run_once: index of the next candidate of the for loop
    cycles,          \* number of run_once calls started
    size,            \* open_position: the size computed for the candidate
    slept,           \* main: seconds of the last time.sleep between cycles, 0 before it
    attempts,        \* _request_with_retry: failed attempts of the call in progress
    backoff,         \* _request_with_retry: the next sleep
    sent,            \* order POSTs upstream received in the place_order call in progress, or the last one
    call_log,        \* RetrySpec: session.request and time.sleep calls of the call, in order
    response,        \* RetrySpec: what the call returned or raised
    market,          \* find_clear_win_markets: the market of the outer for loop
    outcome,         \* find_clear_win_markets: the outcome of the inner for loop
    outcomes_left,   \* outcomes of `market` the inner loop has not reached yet
    reason_counts,   \* find_clear_win_markets: rejections per reason
    scanned,         \* markets the outer loop has taken so far
    passed_outcomes, \* outcomes of the markets that got past the market-level checks
    raw,             \* fetch_markets: the outcome item of the payload being parsed
    parsed           \* fetch_markets: what _extract_best_levels made of it, or that it raised

mainVars == <<pc, mode, once, trading, usdc_balance, open_positions, trades,
              orders, candidates, idx, cycles, size, slept>>
callVars == <<attempts, backoff, sent>>
retryVars == <<call_log, response>>
scanVars == <<market, outcome, outcomes_left, reason_counts, scanned, passed_outcomes>>

parseVars == <<raw, parsed>>

vars == <<mainVars, callVars, retryVars, scanVars, parseVars>>

----------------------------------------------------------------------------
(* Bounds of the model *)

\* ParseSpec: an "asks" list has at most MaxLevels levels
MaxLevels == 2

\* SizerSpec: amounts range over 0 .. MaxAmount, ledgers have <= MaxLedger entries
MaxAmount == 4
MaxLedger == 2

\* ScanSpec: one scan takes at most MaxScanSteps markets and outcomes altogether
MaxScanSteps == 5

\* Spec: the loop runs at most MaxCycles cycles; upstream lists at most
\* MaxFeedMarkets markets per fetch
MaxCycles == 2
MaxFeedMarkets == 2

----------------------------------------------------------------------------
(* config.py: TradingConfig and its defaults *)

PriceOne == 1000

DefaultMaxBalanceToUse == 30
DefaultMaxPositionPerMarket == 5
DefaultMaxOpenExposure == 15
DefaultMinProbabilityPrice == 970
DefaultMaxProbabilityPrice == 995
DefaultMaxTimeToResolutionHours == 24
DefaultMinLiquidity == 1
DefaultMinTradeSize == 1
DefaultScanIntervalSeconds == 60

TradingConfig ==
    [max_balance_to_use |-> DefaultMaxBalanceToUse,
     max_position_per_market |-> DefaultMaxPositionPerMarket,
     max_open_exposure |-> DefaultMaxOpenExposure,
     min_probability_price |-> DefaultMinProbabilityPrice,
     max_probability_price |-> DefaultMaxProbabilityPrice,
     max_time_to_resolution_hours |-> DefaultMaxTimeToResolutionHours,
     min_liquidity |-> DefaultMinLiquidity,
     min_trade_size |-> DefaultMinTradeSize,
     scan_interval_seconds |-> DefaultScanIntervalSeconds]

----------------------------------------------------------------------------
(* Helpers *)

Min2(a, b) == IF a <= b THEN a ELSE b
Max2(a, b) == IF a >= b THEN a ELSE b

RECURSIVE SumSizes(_)
SumSizes(ps) == IF ps = <<>> THEN 0 ELSE ps[1].size + SumSizes(Tail(ps))

SeqsUpTo(S, n) == UNION {[1..k -> S] : k \in 0..n}

----------------------------------------------------------------------------
(* risk.py *)

\* a sizer that forgets the open exposure
get_available_capital_no_exposure(balance, tr, positions) ==
    Max2(Min2(balance, tr.max_balance_to_use), 0)

\* a sizer that takes the larger of balance and ceiling
get_available_capital_max(balance, tr, positions) ==
    Max2(Max2(balance, tr.max_balance_to_use) - SumSizes(positions), 0)

\* get_available_capital: min(balance, max_balance_to_use) - open exposure, floored at 0
get_available_capital(balance, tr, positions) ==
    LET open_exposure == SumSizes(positions)
        capital_left == Min2(balance, tr.max_balance_to_use) - open_exposure
    IN  Max2(capital_left, 0)

\* a sizer that forgets the remaining capital
size_for_market_no_capital(balance, tr, positions, candidate) ==
    Max2(0, Min2(tr.max_position_per_market, candidate.available_size))

\* a sizer that gives nothing to a market and outcome the ledger already holds
size_for_market_dedup(balance, tr, positions, candidate) ==
    LET capital_left == get_available_capital(balance, tr, positions)
        held == \E i \in 1..Len(positions) :
                    /\ positions[i].market_id = candidate.market_id
                    /\ positions[i].outcome_id = candidate.outcome_id
    IN  IF capital_left <= 0 \/ held
        THEN 0
        ELSE Max2(0, Min2(tr.max_position_per_market,
                          Min2(capital_left, candidate.available_size)))

\* size_for_market
size_for_market(balance, tr, positions, candidate) ==
    LET capital_left == get_available_capital(balance, tr, positions)
    IN  IF capital_left <= 0
        THEN 0
        ELSE Max2(0, Min2(tr.max_position_per_market,
                          Min2(capital_left, candidate.available_size)))

----------------------------------------------------------------------------
(* polymarket_client.py: Market, MarketOutcome; strategy.py *)

None == <<>>
Some(x) == <<x>>

\* Market.end_date_iso: "" (no end-date field), a string that is no ISO
\* timestamp, or an ISO timestamp: wall-clock hour and UTC offset in hours
\* (0 for a trailing "Z")
EmptyEnd == [kind |-> "empty", wall |-> 0, offset |-> 0]
BadEnd == [kind |-> "bad", wall |-> 0, offset |-> 0]
IsoEnd(w, off) == [kind |-> "iso", wall |-> w, offset |-> off]

\* _parse_iso: fromisoformat(value.replace("Z", "+00:00")).replace(tzinfo=None)
\* keeps the wall-clock time and drops the offset; None on ValueError
_parse_iso(e) == IF e.kind = "iso" THEN Some(e.wall) ELSE None

\* (resolve_time - now).total_seconds() / 3600
HoursLeft(resolve_time, now) == resolve_time - now

Reasons == {"missing_end", "bad_end", "too_late", "no_best_ask", "price_low",
            "price_high", "low_liquidity"}

ZeroCounts == [r \in Reasons |-> 0]

\* reason_counts[r] += 1
Bump(rc, r) == [rc EXCEPT ![r] = @ + 1]

\* an exclusive time bound
TooLateStrict(hours_left, tr) == hours_left >= tr.max_time_to_resolution_hours

\* hours_left > trading.max_time_to_resolution_hours
TooLate(hours_left, tr) == hours_left > tr.max_time_to_resolution_hours

\* the three market-level checks, in the loop's order; "pass" when none rejects
MarketVerdict(m, tr, now) ==
    IF m.end_date_iso.kind = "empty" THEN "missing_end"
    ELSE IF _parse_iso(m.end_date_iso) = None THEN "bad_end"
    ELSE IF TooLate(HoursLeft(_parse_iso(m.end_date_iso)[1], now), tr) THEN "too_late"
    ELSE "pass"

\* outcome.best_ask is None or outcome.best_ask_size is None
NoBestAsk(o) == o.best_ask = None \/ o.best_ask_size = None

\* an exclusive lower price bound
PriceLowStrict(o, tr) == o.best_ask[1] <= tr.min_probability_price

\* outcome.best_ask < trading.min_probability_price
PriceLow(o, tr) == o.best_ask[1] < tr.min_probability_price

\* outcome.best_ask > trading.max_probability_price
PriceHigh(o, tr) == o.best_ask[1] > tr.max_probability_price

\* outcome.best_ask_size < trading.min_liquidity
LowLiquidity(o, tr) == o.best_ask_size[1] < tr.min_liquidity

MakeCandidate(m, o, hours_left) ==
    [market_id |-> m.id, outcome_id |-> o.id, ask_price |-> o.best_ask[1],
     time_to_resolve_hours |-> hours_left, available_size |-> o.best_ask_size[1]]

\* an inner loop that checks the liquidity before the price
ScanOutcomeLiquidityFirst(acc, m, hours_left, o, tr) ==
    IF NoBestAsk(o) THEN [acc EXCEPT !.reason_counts = Bump(@, "no_best_ask")]
    ELSE IF LowLiquidity(o, tr)
         THEN [acc EXCEPT !.reason_counts = Bump(@, "low_liquidity")]
    ELSE IF PriceLow(o, tr) THEN [acc EXCEPT !.reason_counts = Bump(@, "price_low")]
    ELSE IF PriceHigh(o, tr) THEN [acc EXCEPT !.reason_counts = Bump(@, "price_high")]
    ELSE [acc EXCEPT !.candidates = Append(@, MakeCandidate(m, o, hours_left))]

\* the body of the inner loop; acc is [candidates, reason_counts]
ScanOutcome(acc, m, hours_left, o, tr) ==
    IF NoBestAsk(o) THEN [acc EXCEPT !.reason_counts = Bump(@, "no_best_ask")]
    ELSE IF PriceLow(o, tr) THEN [acc EXCEPT !.reason_counts = Bump(@, "price_low")]
    ELSE IF PriceHigh(o, tr) THEN [acc EXCEPT !.reason_counts = Bump(@, "price_high")]
    ELSE IF LowLiquidity(o, tr)
         THEN [acc EXCEPT !.reason_counts = Bump(@, "low_liquidity")]
    ELSE [acc EXCEPT !.candidates = Append(@, MakeCandidate(m, o, hours_left))]

\* the inner loop over market.outcomes
RECURSIVE ScanOutcomes(_, _, _, _, _)
ScanOutcomes(acc, m, hours_left, os, tr) ==
    IF os = <<>> THEN acc
    ELSE ScanOutcomes(ScanOutcome(acc, m, hours_left, os[1], tr), m, hours_left,
                      Tail(os), tr)

\* the body of the outer loop
ScanMarket(acc, m, tr, now) ==
    LET v == MarketVerdict(m, tr, now)
    IN  IF v # "pass"
        THEN [acc EXCEPT !.reason_counts = Bump(@, v)]
        ELSE ScanOutcomes(acc, m, HoursLeft(_parse_iso(m.end_date_iso)[1], now),
                          m.outcomes, tr)

RECURSIVE ScanMarkets(_, _, _, _)
ScanMarkets(acc, ms, tr, now) ==
    IF ms = <<>> THEN acc
    ELSE ScanMarkets(ScanMarket(acc, ms[1], tr, now), Tail(ms), tr, now)

\* find_clear_win_markets on the markets fetch_markets returned.  The
\* near-miss list and the log lines are diagnostics that neither the candidates
\* nor the counters depend on; they are left out.
find_clear_win_markets(ms, tr, now) ==
    ScanMarkets([candidates |-> <<>>, reason_counts |-> ZeroCounts], ms, tr, now)

----------------------------------------------------------------------------
(* polymarket_client.py: _safe_float, _extract_best_levels *)

\* a JSON value under a key of the payload: the key is absent, null, a
\* number, a string that float() parses, one it does not parse, or ""
Missing == [kind |-> "missing", num |-> 0]
Null == [kind |-> "null", num |-> 0]
Num(n) == [kind |-> "num", num |-> n]
NumStr(n) == [kind |-> "numstr", num |-> n]
BadStr == [kind |-> "badstr", num |-> 0]
EmptyStr == [kind |-> "emptystr", num |-> 0]

\* dict.get(key): None when the key is absent
Get(v) == IF v.kind = "missing" THEN Null ELSE v

\* Python truth of a value: None, 0 and "" are false
Truthy(v) == v.kind \in {"numstr", "badstr"} \/ (v.kind = "num" /\ v.num # 0)

\* a or b
Or(a, b) == IF Truthy(a) THEN a ELSE b

\* float(value) raises TypeError on None, ValueError on a string it cannot parse
FloatRaises(v) == v.kind \notin {"num", "numstr"}

\* _safe_float: float(value), None when it raises TypeError or ValueError
_safe_float(v) == IF FloatRaises(v) THEN None ELSE Some(v.num)

\* a raw ask level: a dict with price, size, amount, or a [price, size] pair
Level(p, z, a) == [shape |-> "dict", price |-> p, size |-> z, amount |-> a]
PairLevel == [shape |-> "pair", price |-> Missing, size |-> Missing, amount |-> Missing]

\* the value under "asks": absent, a list of levels, or something that is no list
NoAsks == [kind |-> "missing", levels |-> <<>>]
AsksList(ls) == [kind |-> "list", levels |-> ls]
AsksOther == [kind |-> "other", levels |-> <<>>]

\* order_book.get("asks") or outcome.get("asks")
OrAsks(a, b) ==
    IF a.kind = "other" \/ (a.kind = "list" /\ a.levels # <<>>) THEN a ELSE b

\* isinstance(asks, list) and asks
IsLevelList(asks) == asks.kind = "list" /\ asks.levels # <<>>

\* the key lambda of min: float(level.get("price", float("inf"))) raises for
\* a level that is no dict (no .get) and for a price that float() rejects
KeyRaises(l) ==
    \/ l.shape # "dict"
    \/ l.price.kind # "missing" /\ FloatRaises(l.price)

\* the key of a level whose key does not raise: a float, or infinity
KeyOf(l) ==
    IF l.price.kind = "missing" THEN [inf |-> TRUE, v |-> 0]
    ELSE [inf |-> FALSE, v |-> l.price.num]

KeyLess(a, b) == ~a.inf /\ (b.inf \/ a.v < b.v)

\* min(asks, key=...): the first level of the smallest key
RECURSIVE MinLevelFrom(_, _, _)
MinLevelFrom(ls, best, i) ==
    IF i > Len(ls) THEN best
    ELSE IF KeyLess(KeyOf(ls[i]), KeyOf(ls[best])) THEN MinLevelFrom(ls, i, i + 1)
    ELSE MinLevelFrom(ls, best, i + 1)

MinLevel(ls) == ls[MinLevelFrom(ls, 1, 2)]

\* best_ask or ...: a float already extracted is true unless it is 0.0
OrFloat(opt, v) == IF opt # None /\ opt[1] # 0 THEN Num(opt[1]) ELSE v

ExtractRaised == [state |-> "raised", best_bid |-> None, best_ask |-> None,
                  best_ask_size |-> None]

Extracted(bid, ask, asz) ==
    [state |-> "ok", best_bid |-> bid, best_ask |-> ask, best_ask_size |-> asz]

\* _extract_best_levels(outcome, order_book); r is [outcome, order_book],
\* each with bestBid, bestAsk, bestAskSize and asks
_extract_best_levels(r) ==
    LET ob == r.order_book
        oc == r.outcome
        best_bid == _safe_float(Or(Get(ob.bestBid), Get(oc.bestBid)))
        best_ask == _safe_float(Or(Get(ob.bestAsk), Get(oc.bestAsk)))
        best_ask_size == _safe_float(Or(Get(ob.bestAskSize), Get(oc.bestAskSize)))
        asks == OrAsks(ob.asks, oc.asks)
    IN  IF (best_ask = None \/ best_ask_size = None) /\ IsLevelList(asks)
        THEN IF \E i \in 1..Len(asks.levels) : KeyRaises(asks.levels[i])
             THEN ExtractRaised
             ELSE LET top_ask == MinLevel(asks.levels)
                  IN  Extracted(
                        best_bid,
                        _safe_float(OrFloat(best_ask, Get(top_ask.price))),
                        _safe_float(Or(OrFloat(best_ask_size, Get(top_ask.size)),
                                     Get(top_ask.amount))))
        ELSE Extracted(best_bid, best_ask, best_ask_size)

----------------------------------------------------------------------------
(* polymarket_client.py: _request_with_retry *)

\* a retry loop that allows a fourth attempt
MaxAttemptsFour == 3 + 1

MaxAttempts == 3
InitialBackoff == 1
BackoffFactor == 2

\* what session.request / raise_for_status can raise: a transport error that
\* never reached upstream, one after upstream took the request (a timeout, a
\* dropped reply), a 4xx status, a 5xx status
FailKinds == {"connect_error", "read_timeout", "status_4xx", "status_5xx"}

\* the failures after which upstream has received the request
ReachedUpstream(kind) == kind # "connect_error"

NoResponse == [state |-> "none", body |-> "", error |-> ""]
Returned(b) == [state |-> "returned", body |-> b, error |-> ""]
Raised(kind) == [state |-> "raised", body |-> "", error |-> kind]

\* while attempts < 3
MayAttempt(att) == att < MaxAttempts

\* raising one failure late
ShouldRaiseLate(att) == att > MaxAttempts

\* if attempts >= 3: raise
ShouldRaise(att) == att >= MaxAttempts

\* a backoff that grows by a step instead of doubling
NextBackoffLinear(b) == b + BackoffFactor

\* backoff *= 2
NextBackoff(b) == b * BackoffFactor

RequestEvent(res, b) == [ev |-> "request", result |-> res, body |-> b, seconds |-> 0]
SleepEvent(d) == [ev |-> "sleep", result |-> "", body |-> "", seconds |-> d]

\* the except branch: what is logged after a failed attempt that set the count to att
AfterFailure(log, kind, att, b) ==
    IF ShouldRaise(att)
    THEN Append(log, RequestEvent(kind, ""))
    ELSE Append(Append(log, RequestEvent(kind, "")), SleepEvent(b))

----------------------------------------------------------------------------
(* The locals of a function that is not running *)

\* the retry loop's locals before a call: attempts = 0, backoff = 1.0
CallAtRest == attempts = 0 /\ backoff = InitialBackoff /\ sent = 0
RetryAtRest == call_log = <<>> /\ response = NoResponse

NoMarket == [id |-> 0, end_date_iso |-> EmptyEnd]
NoOutcome == [id |-> 0, best_ask |-> None, best_ask_size |-> None]

NoFields == [bestBid |-> Missing, bestAsk |-> Missing, bestAskSize |-> Missing,
             asks |-> NoAsks]

\* fetch_markets before it has taken an outcome item
ParseAtRest ==
    /\ raw = [outcome |-> NoFields, order_book |-> NoFields]
    /\ parsed = Extracted(None, None, None)

\* the scanner's locals at the start of find_clear_win_markets
ScanAtRest ==
    /\ market = NoMarket
    /\ outcome = NoOutcome
    /\ outcomes_left = 0
    /\ reason_counts = ZeroCounts
    /\ scanned = 0
    /\ passed_outcomes = 0

----------------------------------------------------------------------------
(* polymarket_client.py: place_order, get_balances; main.py *)

\* a gateway that posts every order
IsPaperNever(m) == FALSE

\* if mode == "paper"
IsPaper(m) == m = "paper"

\* the paper branch's result
PaperOrder == [status |-> Some("filled"), order_id |-> "paper-simulated"]

\* order.get("status", "unknown")
OrderStatus(order) == IF order.status = None THEN "unknown" ELSE order.status[1]

\* the amount paid instead of the amount won
ExpectedPayoutCost(s, ask) == s * ask

\* size * (1 - candidate["ask_price"])
ExpectedPayout(s, ask) == s * (PriceOne - ask)

\* a skip that also drops a size equal to min_trade_size
TooSmallInclusive(s, tr) == s <= tr.min_trade_size

\* if size < trading.min_trade_size: skip
TooSmall(s, tr) == s < tr.min_trade_size

\* the position open_position appends
NewPosition(c, s) ==
    [market_id |-> c.market_id, outcome_id |-> c.outcome_id,
     entry_price |-> c.ask_price, size |-> s]

\* the row open_position hands to append_trade_row
TradeRow(c, s, order) ==
    [market_id |-> c.market_id, side |-> "BUY", price |-> c.ask_price,
     size |-> s, expected_payout |-> ExpectedPayout(s, c.ask_price),
     status |-> OrderStatus(order)]

\* the place_order call as the gateway saw it, with what it returned
OrderCall(c, s, m, order) ==
    [market_id |-> c.market_id, outcome_id |-> c.outcome_id, side |-> "buy",
     price |-> c.ask_price, size |-> s, mode |-> m, status |-> order.status]

\* a main() that ignores --once
AfterRunOnceAlwaysLoop(o) == "sleep"

\* main(): after run_once returns, --once exits, otherwise the loop sleeps
AfterRunOnce(o) == IF o THEN "done" ELSE "sleep"

----------------------------------------------------------------------------
(* Spec: the execution loop against an upstream free to fail and to answer *)

\* a second configuration: the ceiling below every balance but 0, and
\* max_open_exposure half the ceiling as in the defaults
TightConfig ==
    [TradingConfig EXCEPT !.max_balance_to_use = 6, !.max_open_exposure = 3]

TradingConfigs == {TradingConfig, TightConfig}

\* get_balances() is a placeholder returning 0; other values stand for the
\* balance query that is to replace it
Balances == {0, 7}

FeedNow == 0

\* what upstream lists: markets with one outcome each, resolving in 10 hours
FeedOutcomes ==
    {[id |-> 1, best_ask |-> Some(980), best_ask_size |-> Some(10)],
     [id |-> 1, best_ask |-> Some(980), best_ask_size |-> Some(3)],
     [id |-> 1, best_ask |-> Some(960), best_ask_size |-> Some(10)]}

FeedMarkets ==
    {[id |-> i, end_date_iso |-> IsoEnd(FeedNow + 10, 0), outcomes |-> <<o>>] :
        i \in {1, 2}, o \in FeedOutcomes}

Payloads == SeqsUpTo(FeedMarkets, MaxFeedMarkets)

\* what the order endpoint's JSON carries under "status"
OrderReplies ==
    {[status |-> Some("filled")], [status |-> Some("rejected")], [status |-> None]}

Init ==
    /\ pc = "idle"
    /\ mode \in {"paper", "live"}
    /\ once \in BOOLEAN
    /\ trading \in TradingConfigs
    /\ usdc_balance \in Balances
    /\ open_positions = <<>>
    /\ trades = <<>>
    /\ orders = <<>>
    /\ candidates = <<>>
    /\ idx = 1
    /\ cycles = 0
    /\ size = 0
    /\ slept = 0
    /\ CallAtRest
    /\ RetryAtRest
    /\ ScanAtRest
    /\ ParseAtRest

\* the retry loop's locals at the start of a call
EnterCall == attempts' = 0 /\ backoff' = InitialBackoff /\ sent' = 0

\* run_once returns to main(): its locals are gone
LeaveRunOnce ==
    /\ pc' = AfterRunOnce(once)
    /\ candidates' = <<>>
    /\ idx' = 1
    /\ size' = 0

\* the for loop of run_once moves on to the next candidate, or is exhausted
NextCandidate ==
    IF idx + 1 > Len(candidates)
    THEN LeaveRunOnce
    ELSE pc' = "open" /\ idx' = idx + 1 /\ size' = 0 /\ candidates' = candidates

\* open_position after place_order returned `order` for size s
RecordPosition(c, s, order) ==
    /\ open_positions' = Append(open_positions, NewPosition(c, s))
    /\ trades' = Append(trades, TradeRow(c, s, order))
    /\ orders' = Append(orders, OrderCall(c, s, mode, order))

\* a loop that starts every cycle with a fresh ledger
run_once_fresh_ledger ==
    /\ pc = "idle"
    /\ cycles < MaxCycles
    /\ cycles' = cycles + 1
    /\ pc' = "fetch"
    /\ attempts' = 0 /\ backoff' = InitialBackoff /\ sent' = 0
    /\ open_positions' = <<>>
    /\ UNCHANGED <<parseVars, slept, mode, once, trading, usdc_balance, trades, orders, candidates,
                   idx, size, retryVars, scanVars>>

\* main(): run_once is called; find_clear_win_markets calls fetch_markets,
\* which enters _request_with_retry("GET", ...)
run_once ==
    /\ pc = "idle"
    /\ cycles < MaxCycles
    /\ cycles' = cycles + 1
    /\ pc' = "fetch"
    /\ EnterCall
    /\ UNCHANGED <<parseVars, slept, mode, once, trading, usdc_balance, open_positions, trades,
                   orders, candidates, idx, size, retryVars, scanVars>>

\* an attempt of the GET fails: raise after the third, else sleep and double
FetchFail(kind) ==
    /\ pc = "fetch"
    /\ MayAttempt(attempts)
    /\ attempts' = attempts + 1
    /\ IF ShouldRaise(attempts')
       THEN pc' = "crashed" /\ backoff' = backoff
       ELSE pc' = "fetch" /\ backoff' = NextBackoff(backoff)
    /\ UNCHANGED <<parseVars, slept, mode, once, trading, usdc_balance, open_positions, trades,
                   orders, candidates, idx, cycles, size, sent, retryVars,
                   scanVars>>

\* the GET succeeds with payload ms: fetch_markets returns the markets,
\* find_clear_win_markets filters them, run_once starts its for loop or returns
FetchOk(ms) ==
    /\ pc = "fetch"
    /\ MayAttempt(attempts)
    /\ LET found == find_clear_win_markets(ms, trading, FeedNow).candidates
       IN  IF found = <<>>
           THEN LeaveRunOnce
           ELSE pc' = "open" /\ candidates' = found /\ idx' = 1 /\ size' = 0
    /\ EnterCall
    /\ UNCHANGED <<parseVars, slept, mode, once, trading, usdc_balance, open_positions, trades,
                   orders, cycles, retryVars, scanVars>>

\* open_position for candidates[idx]: size it; skip it, or place the order;
\* a paper order returns at once, a live one enters _request_with_retry("POST", ...)
open_position ==
    /\ pc = "open"
    /\ LET c == candidates[idx]
           s == size_for_market(usdc_balance, trading, open_positions, c)
       IN  IF TooSmall(s, trading)
           THEN /\ NextCandidate
                /\ UNCHANGED <<open_positions, trades, orders>>
           ELSE IF IsPaper(mode)
           THEN /\ RecordPosition(c, s, PaperOrder)
                /\ NextCandidate
           ELSE /\ pc' = "order"
                /\ size' = s
                /\ UNCHANGED <<open_positions, trades, orders, candidates, idx>>
    /\ EnterCall
    /\ UNCHANGED <<parseVars, slept, mode, once, trading, usdc_balance, cycles, retryVars, scanVars>>

\* a main loop that catches the order's error, logs it and carries on
OrderFailCaught(kind) ==
    /\ pc = "order"
    /\ MayAttempt(attempts)
    /\ attempts' = attempts + 1
    /\ sent' = sent + (IF ReachedUpstream(kind) THEN 1 ELSE 0)
    /\ IF ShouldRaise(attempts')
       THEN /\ LeaveRunOnce
            /\ backoff' = backoff
       ELSE /\ pc' = "order"
            /\ backoff' = NextBackoff(backoff)
            /\ UNCHANGED <<candidates, idx, size>>
    /\ UNCHANGED <<parseVars, slept, mode, once, trading, usdc_balance, open_positions, trades,
                   orders, cycles, retryVars, scanVars>>

\* an attempt of the order POST fails: raise after the third (nothing in
\* main.py catches it), else sleep and double
OrderFail(kind) ==
    /\ pc = "order"
    /\ MayAttempt(attempts)
    /\ attempts' = attempts + 1
    /\ sent' = sent + (IF ReachedUpstream(kind) THEN 1 ELSE 0)
    /\ IF ShouldRaise(attempts')
       THEN pc' = "crashed" /\ backoff' = backoff
       ELSE pc' = "order" /\ backoff' = NextBackoff(backoff)
    /\ UNCHANGED <<parseVars, slept, mode, once, trading, usdc_balance, open_positions, trades,
                   orders, candidates, idx, cycles, size, retryVars, scanVars>>

\* the order POST succeeds: upstream took the order and answered; place_order
\* returns response.json() as it is and open_position records the position
\* and the trade
OrderOk(reply) ==
    /\ pc = "order"
    /\ MayAttempt(attempts)
    /\ RecordPosition(candidates[idx], size, reply)
    /\ NextCandidate
    /\ attempts' = 0 /\ backoff' = InitialBackoff
    /\ sent' = sent + 1
    /\ UNCHANGED <<parseVars, slept, mode, once, trading, usdc_balance, cycles, retryVars, scanVars>>

\* main(): time.sleep(config.trading.scan_interval_seconds), then loop
Sleep ==
    /\ pc = "sleep"
    /\ pc' = "idle"
    /\ slept' = trading.scan_interval_seconds
    /\ UNCHANGED <<parseVars, mode, once, trading, usdc_balance, open_positions, trades,
                   orders, candidates, idx, cycles, size, callVars, retryVars,
                   scanVars>>

Next ==
    \/ run_once
    \/ \E kind \in FailKinds : FetchFail(kind)
    \/ \E ms \in Payloads : FetchOk(ms)
    \/ open_position
    \/ \E kind \in FailKinds : OrderFail(kind)
    \/ \E reply \in OrderReplies : OrderOk(reply)
    \/ Sleep

Spec == Init /\ [][Next]_vars

\* LoopSpec: the loop of main() under the default configuration, a balance
\* that lets it trade and an upstream that lists at most one market per
\* fetch.  The process is one thread that is never suspended for good, and
\* every session.request carries a timeout: a step that can be taken is taken.
LoopInit == Init /\ trading = TradingConfig /\ usdc_balance # 0

LoopPayloads == {ms \in Payloads : Len(ms) <= 1}

LoopNext ==
    \/ run_once
    \/ \E kind \in FailKinds : FetchFail(kind)
    \/ \E ms \in LoopPayloads : FetchOk(ms)
    \/ open_position
    \/ \E kind \in FailKinds : OrderFail(kind)
    \/ \E reply \in OrderReplies : OrderOk(reply)
    \/ Sleep

LoopSpec == LoopInit /\ [][LoopNext]_vars /\ WF_vars(LoopNext)

----------------------------------------------------------------------------
(* ScenarioSpec: the loop under the default configuration, with a balance
   query that reports the whole ceiling and an upstream that lists one market:
   it resolves in 10 hours and has one outcome, best ask 0.98 for a size of 10 *)

ScenarioBalance == DefaultMaxBalanceToUse

ScenarioMarket ==
    [id |-> 1, end_date_iso |-> IsoEnd(FeedNow + 10, 0),
     outcomes |-> <<[id |-> 1, best_ask |-> Some(980), best_ask_size |-> Some(10)]>>]

ScenarioInit ==
    /\ pc = "idle"
    /\ mode \in {"paper", "live"}
    /\ once \in BOOLEAN
    /\ trading = TradingConfig
    /\ usdc_balance = ScenarioBalance
    /\ open_positions = <<>>
    /\ trades = <<>>
    /\ orders = <<>>
    /\ candidates = <<>>
    /\ idx = 1
    /\ cycles = 0
    /\ size = 0
    /\ slept = 0
    /\ CallAtRest
    /\ RetryAtRest
    /\ ScanAtRest
    /\ ParseAtRest

ScenarioNext ==
    \/ run_once
    \/ \E kind \in FailKinds : FetchFail(kind)
    \/ FetchOk(<<ScenarioMarket>>)
    \/ open_position
    \/ \E kind \in FailKinds : OrderFail(kind)
    \/ \E reply \in OrderReplies : OrderOk(reply)
    \/ Sleep

ScenarioSpec == ScenarioInit /\ [][ScenarioNext]_vars

----------------------------------------------------------------------------
(* SizerSpec: size_for_market applied to arbitrary inputs *)

\* balances, limits, position sizes and available sizes: amounts, never negative
Amounts == 0..MaxAmount

SizerCandidate(a) ==
    [market_id |-> 1, outcome_id |-> 1, ask_price |-> DefaultMinProbabilityPrice,
     time_to_resolve_hours |-> 0, available_size |-> a]

SizerPosition(s) ==
    [market_id |-> 1, outcome_id |-> 1, entry_price |-> DefaultMinProbabilityPrice,
     size |-> s]

SizerInit ==
    /\ pc = "size"
    /\ mode = "paper"
    /\ once = TRUE
    /\ \E mb \in Amounts, mp \in Amounts :
          trading = [TradingConfig EXCEPT !.max_balance_to_use = mb,
                                          !.max_position_per_market = mp]
    /\ usdc_balance \in Amounts
    /\ \E ss \in SeqsUpTo(Amounts, MaxLedger) :
          open_positions = [i \in 1..Len(ss) |-> SizerPosition(ss[i])]
    /\ trades = <<>>
    /\ orders = <<>>
    /\ \E a \in Amounts : candidates = <<SizerCandidate(a)>>
    /\ idx = 1
    /\ cycles = 0
    /\ size = 0
    /\ slept = 0
    /\ CallAtRest
    /\ RetryAtRest
    /\ ScanAtRest
    /\ ParseAtRest

SizerStep ==
    /\ pc = "size"
    /\ size' = size_for_market(usdc_balance, trading, open_positions, candidates[idx])
    /\ pc' = "sized"
    /\ UNCHANGED <<parseVars, slept, mode, once, trading, usdc_balance, open_positions, trades,
                   orders, candidates, idx, cycles, callVars, retryVars, scanVars>>

SizerNext == SizerStep

SizerSpec == SizerInit /\ [][SizerNext]_vars

----------------------------------------------------------------------------
(* RetrySpec: one _request_with_retry call against an upstream that answers
   or fails each attempt as it likes *)

Bodies == {"body_a", "body_b"}

RetryInit ==
    /\ pc = "request"
    /\ mode = "live"
    /\ once = TRUE
    /\ trading = TradingConfig
    /\ usdc_balance = 0
    /\ open_positions = <<>>
    /\ trades = <<>>
    /\ orders = <<>>
    /\ candidates = <<>>
    /\ idx = 1
    /\ cycles = 0
    /\ size = 0
    /\ slept = 0
    /\ CallAtRest
    /\ RetryAtRest
    /\ ScanAtRest
    /\ ParseAtRest

\* session.request returned and raise_for_status passed: return response
RetryRequestOk(b) ==
    /\ pc = "request"
    /\ MayAttempt(attempts)
    /\ call_log' = Append(call_log, RequestEvent("ok", b))
    /\ response' = Returned(b)
    /\ sent' = sent + 1
    /\ pc' = "returned"
    /\ UNCHANGED <<parseVars, slept, mode, once, trading, usdc_balance, open_positions, trades,
                   orders, candidates, idx, cycles, size, attempts, backoff,
                   scanVars>>

\* session.request or raise_for_status raised: count, then raise or sleep and double
RetryRequestFail(kind) ==
    /\ pc = "request"
    /\ MayAttempt(attempts)
    /\ attempts' = attempts + 1
    /\ call_log' = AfterFailure(call_log, kind, attempts', backoff)
    /\ sent' = sent + (IF ReachedUpstream(kind) THEN 1 ELSE 0)
    /\ IF ShouldRaise(attempts')
       THEN /\ response' = Raised(kind)
            /\ pc' = "raised"
            /\ backoff' = backoff
       ELSE /\ response' = response
            /\ pc' = "request"
            /\ backoff' = NextBackoff(backoff)
    /\ UNCHANGED <<parseVars, slept, mode, once, trading, usdc_balance, open_positions, trades,
                   orders, candidates, idx, cycles, size, scanVars>>

RetryNext ==
    \/ \E b \in Bodies : RetryRequestOk(b)
    \/ \E kind \in FailKinds : RetryRequestFail(kind)

RetrySpec == RetryInit /\ [][RetryNext]_vars

----------------------------------------------------------------------------
(* ScanSpec: find_clear_win_markets, one loop iteration at a time, over
   markets and outcomes that upstream is free to choose *)

ScanNow == 0

ScanEndDates ==
    {EmptyEnd, BadEnd}
    \cup {IsoEnd(ScanNow + h, 0) :
            h \in {-1, DefaultMaxTimeToResolutionHours,
                   DefaultMaxTimeToResolutionHours + 1}}
    \cup {IsoEnd(ScanNow + DefaultMaxTimeToResolutionHours, 2)}

ScanAsks ==
    {None} \cup {Some(a) : a \in {DefaultMinProbabilityPrice - 1,
                                  DefaultMinProbabilityPrice,
                                  DefaultMaxProbabilityPrice,
                                  DefaultMaxProbabilityPrice + 1}}

ScanSizes ==
    {None} \cup {Some(z) : z \in {DefaultMinLiquidity - 1, DefaultMinLiquidity}}

ScanOutcomeSet == [id : {1}, best_ask : ScanAsks, best_ask_size : ScanSizes]

\* loop iterations so far and the ones the current market still owes
ScanSteps ==
    scanned + outcomes_left + Len(candidates) + reason_counts["no_best_ask"]
    + reason_counts["price_low"] + reason_counts["price_high"]
    + reason_counts["low_liquidity"]

ScanInit ==
    /\ pc = "scan_market"
    /\ mode = "paper"
    /\ once = TRUE
    /\ trading = TradingConfig
    /\ usdc_balance = 0
    /\ open_positions = <<>>
    /\ trades = <<>>
    /\ orders = <<>>
    /\ candidates = <<>>
    /\ idx = 1
    /\ cycles = 0
    /\ size = 0
    /\ slept = 0
    /\ CallAtRest
    /\ RetryAtRest
    /\ ScanAtRest
    /\ ParseAtRest

\* the outer loop takes the next market, with end date e and n outcomes, and
\* runs the three market-level checks
ScanTakeMarket(e, n) ==
    /\ pc = "scan_market"
    /\ ScanSteps + 1 + n <= MaxScanSteps
    /\ LET m == [id |-> scanned + 1, end_date_iso |-> e]
           v == MarketVerdict(m, trading, ScanNow)
       IN  /\ market' = m
           /\ scanned' = scanned + 1
           /\ IF v # "pass"
              THEN /\ reason_counts' = Bump(reason_counts, v)
                   /\ outcomes_left' = 0
                   /\ passed_outcomes' = passed_outcomes
                   /\ pc' = "scan_market"
              ELSE /\ reason_counts' = reason_counts
                   /\ outcomes_left' = n
                   /\ passed_outcomes' = passed_outcomes + n
                   /\ pc' = IF n = 0 THEN "scan_market" ELSE "scan_outcome"
    /\ UNCHANGED <<parseVars, slept, mode, once, trading, usdc_balance, open_positions, trades,
                   orders, candidates, idx, cycles, size, callVars, retryVars,
                   outcome>>

\* the inner loop takes the next outcome of the market
ScanTakeOutcome(o) ==
    /\ pc = "scan_outcome"
    /\ outcomes_left > 0
    /\ LET hours_left == HoursLeft(_parse_iso(market.end_date_iso)[1], ScanNow)
           acc == ScanOutcome([candidates |-> candidates,
                               reason_counts |-> reason_counts],
                              market, hours_left, o, trading)
       IN  /\ candidates' = acc.candidates
           /\ reason_counts' = acc.reason_counts
    /\ outcome' = o
    /\ outcomes_left' = outcomes_left - 1
    /\ pc' = IF outcomes_left' = 0 THEN "scan_market" ELSE "scan_outcome"
    /\ UNCHANGED <<parseVars, slept, mode, once, trading, usdc_balance, open_positions, trades,
                   orders, idx, cycles, size, callVars, retryVars, market,
                   scanned, passed_outcomes>>

\* the markets are exhausted: return candidates
ScanReturn ==
    /\ pc = "scan_market"
    /\ pc' = "scanned"
    /\ UNCHANGED <<parseVars, slept, mode, once, trading, usdc_balance, open_positions, trades,
                   orders, candidates, idx, cycles, size, callVars, retryVars,
                   scanVars>>

ScanNext ==
    \/ \E e \in ScanEndDates, n \in 0..MaxScanSteps : ScanTakeMarket(e, n)
    \/ \E o \in ScanOutcomeSet : ScanTakeOutcome(o)
    \/ ScanReturn

ScanSpec == ScanInit /\ [][ScanNext]_vars

----------------------------------------------------------------------------
(* ParseSpec: fetch_markets parsing an outcome item that upstream is free to
   shape *)

ScalarValues == {Missing, Null, Num(0), Num(980), NumStr(980), BadStr, EmptyStr}

\* items with scalar fields and no list of levels
ScalarItems ==
    {[order_book |-> [bestBid |-> b, bestAsk |-> a, bestAskSize |-> z,
                      asks |-> NoAsks],
      outcome |-> [bestBid |-> Missing, bestAsk |-> oa, bestAskSize |-> oz,
                   asks |-> ok]] :
        b \in {Missing, Num(960), BadStr}, a \in ScalarValues,
        z \in {Missing, Num(0), Num(10), BadStr},
        oa \in {Missing, Num(990)}, oz \in {Missing, NumStr(5)},
        ok \in {NoAsks, AsksOther}}

ParseLevels ==
    {Level(p, z, a) :
        p \in {Missing, Null, Num(970), NumStr(980), BadStr},
        z \in {Missing, Num(10), BadStr}, a \in {Missing}}
    \cup {Level(p, Missing, Num(7)) :
        p \in {Missing, Null, Num(970), NumStr(980), BadStr}}
    \cup {PairLevel}

LevelLists == SeqsUpTo(ParseLevels, MaxLevels) \ {<<>>}

\* items with a list of raw ask levels, in the order book or in the outcome
LevelItems ==
    {[order_book |-> [bestBid |-> Missing, bestAsk |-> a, bestAskSize |-> z,
                      asks |-> IF inBook THEN AsksList(ls) ELSE NoAsks],
      outcome |-> [bestBid |-> Missing, bestAsk |-> Missing,
                   bestAskSize |-> Missing,
                   asks |-> IF inBook THEN NoAsks ELSE AsksList(ls)]] :
        a \in {Missing, Num(980), BadStr}, z \in {Missing, Num(10)},
        ls \in LevelLists, inBook \in BOOLEAN}

\* fetch_markets has the response; `raw` is the outcome item its loop takes
ParseInit ==
    /\ pc = "parse"
    /\ mode = "paper"
    /\ once = TRUE
    /\ trading = TradingConfig
    /\ usdc_balance = 0
    /\ open_positions = <<>>
    /\ trades = <<>>
    /\ orders = <<>>
    /\ candidates = <<>>
    /\ idx = 1
    /\ cycles = 0
    /\ size = 0
    /\ slept = 0
    /\ CallAtRest
    /\ RetryAtRest
    /\ ScanAtRest
    /\ raw \in ScalarItems \cup LevelItems
    /\ parsed = Extracted(None, None, None)

\* the loop calls _extract_best_levels on the item; an exception leaves
\* fetch_markets, which catches nothing
ParseOutcome ==
    /\ pc = "parse"
    /\ parsed' = _extract_best_levels(raw)
    /\ pc' = IF parsed'.state = "raised" THEN "parse_raised" ELSE "parse_end"
    /\ UNCHANGED <<raw, slept, mode, once, trading, usdc_balance, open_positions,
                   trades, orders, candidates, idx, cycles, size, callVars,
                   retryVars, scanVars>>

\* the items are exhausted: return markets
ParseReturn ==
    /\ pc = "parse_end"
    /\ pc' = "parsed"
    /\ UNCHANGED <<parseVars, slept, mode, once, trading, usdc_balance, open_positions,
                   trades, orders, candidates, idx, cycles, size, callVars,
                   retryVars, scanVars>>

ParseNext ==
    \/ ParseOutcome
    \/ ParseReturn

ParseSpec == ParseInit /\ [][ParseNext]_vars

----------------------------------------------------------------------------
(* The claims *)

IsPrefix(a, b) == Len(a) <= Len(b) /\ \A i \in 1..Len(a) : a[i] = b[i]

Last(q) == q[Len(q)]

\* C1. Capital ceiling: with every ledger entry created by open_position, the
\* sizes of the ledger positions sum to at most min(balance,
\* max_balance_to_use), hence to at most max_balance_to_use, in every
\* reachable state, also when several candidates are opened in one cycle.
C1_CapitalCeiling ==
    /\ SumSizes(open_positions) <= Min2(usdc_balance, trading.max_balance_to_use)
    /\ SumSizes(open_positions) <= trading.max_balance_to_use

\* two candidates opened within the first cycle fill the ceiling exactly
C1_Witness ==
    /\ cycles = 1
    /\ Len(open_positions) >= 2
    /\ SumSizes(open_positions) = Min2(usdc_balance, trading.max_balance_to_use)

\* remaining capital as the claim defines it
C2_Remaining ==
    Max2(0, Min2(usdc_balance, trading.max_balance_to_use)
            - SumSizes(open_positions))

\* C2. Sizer bounds: for every ledger, config and candidate the size s
\* returned has s >= 0, s <= candidate.available_size,
\* s <= max_position_per_market, s <= remaining capital, and s = 0 when the
\* remaining capital is 0.
C2_SizerBounds ==
    pc = "sized" =>
        /\ size >= 0
        /\ size <= candidates[idx].available_size
        /\ size <= trading.max_position_per_market
        /\ size <= C2_Remaining
        /\ (C2_Remaining = 0 => size = 0)

\* a non-empty ledger leaves less capital than the candidate and the
\* per-market limit allow, and the size is what is left
C2_Witness ==
    /\ pc = "sized"
    /\ open_positions # <<>>
    /\ size > 0
    /\ size = C2_Remaining
    /\ size < candidates[idx].available_size
    /\ size < trading.max_position_per_market

C3_Requests == SelectSeq(call_log, LAMBDA e : e.ev = "request")
C3_Sleeps == SelectSeq(call_log, LAMBDA e : e.ev = "sleep")

C3_TwoFailuresThenSuccess ==
    /\ Len(C3_Requests) = 3
    /\ C3_Requests[1].result # "ok"
    /\ C3_Requests[2].result # "ok"
    /\ C3_Requests[3].result = "ok"

\* C3. Retry success path: a _request_with_retry call whose first two
\* attempts fail and whose third succeeds returns the third attempt's
\* response, makes exactly 3 attempts and sleeps exactly twice, 1 then 2,
\* each sleep between a failed attempt and the next attempt.
C3_RetrySuccess ==
    C3_TwoFailuresThenSuccess =>
        /\ pc = "returned"
        /\ response = Returned(C3_Requests[3].body)
        /\ [i \in 1..Len(C3_Sleeps) |-> C3_Sleeps[i].seconds] = <<1, 2>>
        /\ [i \in 1..Len(call_log) |-> call_log[i].ev]
              = <<"request", "sleep", "request", "sleep", "request">>

C3_Witness ==
    /\ pc = "returned"
    /\ C3_TwoFailuresThenSuccess
    /\ C3_Requests[1].result = "connect_error"
    /\ C3_Requests[2].result = "status_5xx"

C4_Requests == SelectSeq(call_log, LAMBDA e : e.ev = "request")
C4_Sleeps == SelectSeq(call_log, LAMBDA e : e.ev = "sleep")
C4_Failed == SelectSeq(call_log, LAMBDA e : e.ev = "request" /\ e.result # "ok")

\* C4. Retry exhaustion: whatever the kind of failure, a call makes at most
\* 3 attempts; when all 3 fail the third failure's error is raised, there is
\* no fourth attempt and no sleep after the third failure (sleeps: 1 then 2).
C4_RetryExhaustion ==
    /\ Len(C4_Requests) <= 3
    /\ Len(C4_Failed) = 3
       => /\ pc = "raised"
          /\ response = Raised(C4_Failed[3].result)
          /\ [i \in 1..Len(C4_Sleeps) |-> C4_Sleeps[i].seconds] = <<1, 2>>
          /\ Last(call_log).ev = "request"
    /\ pc = "raised" => Len(C4_Failed) = 3

\* three 4xx answers, a permanent error, are retried like any other and raised
C4_Witness ==
    /\ pc = "raised"
    /\ Len(C4_Requests) = 3
    /\ \A i \in 1..3 : C4_Requests[i].result = "status_4xx"
    /\ response.error = "status_4xx"

\* C5. Paper-mode order placement: in paper mode place_order issues no
\* network request (the retry loop of the order POST is never entered and
\* upstream receives nothing) and returns a result whose status is filled,
\* whatever the market, outcome, price and size.
C5_PaperOrder ==
    /\ [](mode = "paper" => pc # "order" /\ sent = 0)
    /\ [][(mode = "paper" /\ Len(orders') = Len(orders) + 1)
            => /\ pc = "open"
               /\ attempts = 0 /\ attempts' = 0
               /\ sent = 0 /\ sent' = 0
               /\ Last(orders').mode = "paper"
               /\ Last(orders').status = Some("filled")
               /\ Last(trades').status = "filled"]_vars

C5_Witness ==
    /\ mode = "paper"
    /\ Len(orders) >= 2
    /\ Last(orders).status = Some("filled")

C6_Market(m) ==
    IF m.end_date_iso.kind = "empty" THEN "missing_end"
    ELSE IF m.end_date_iso.kind # "iso" THEN "bad_end"
    ELSE IF m.end_date_iso.wall - ScanNow > trading.max_time_to_resolution_hours
         THEN "too_late"
    ELSE "pass"

C6_Outcome(o) ==
    IF o.best_ask = None \/ o.best_ask_size = None THEN "no_best_ask"
    ELSE IF o.best_ask[1] < trading.min_probability_price THEN "price_low"
    ELSE IF o.best_ask[1] > trading.max_probability_price THEN "price_high"
    ELSE IF o.best_ask_size[1] < trading.min_liquidity THEN "low_liquidity"
    ELSE "accept"

\* exactly the counter of reason v goes up, by one; no counter when v is no reason
C6_CountedOnlyUnder(v) ==
    \A r \in Reasons : reason_counts'[r] = reason_counts[r] + (IF r = v THEN 1 ELSE 0)

C6_OutcomeCounters ==
    reason_counts["no_best_ask"] + reason_counts["price_low"]
    + reason_counts["price_high"] + reason_counts["low_liquidity"]

\* C6. Filter order and single diagnosis: in one scan every market is either
\* rejected under exactly one of missing_end, bad_end, too_late (the first
\* failing check in that order, and then none of its outcomes is examined or
\* counted), or passes and each of its outcomes is either emitted as exactly
\* one candidate or counted under exactly one of no_best_ask, price_low,
\* price_high, low_liquidity, the first failing check in that order; so
\* candidates + the four outcome-level counters = outcomes of passed markets.
C6_FilterOrder ==
    /\ [](Len(candidates) + C6_OutcomeCounters + outcomes_left = passed_outcomes)
    /\ [](pc \in {"scan_market", "scanned"} => outcomes_left = 0)
    /\ [][/\ (pc = "scan_market" /\ scanned' = scanned + 1)
             => /\ C6_CountedOnlyUnder(C6_Market(market'))
                /\ candidates' = candidates
                /\ C6_Market(market') # "pass"
                   => /\ outcomes_left' = 0
                      /\ passed_outcomes' = passed_outcomes
                      /\ pc' = "scan_market"
                /\ C6_Market(market') = "pass"
                   => passed_outcomes' = passed_outcomes + outcomes_left'
          /\ (pc = "scan_outcome" /\ outcomes_left' = outcomes_left - 1)
             => /\ C6_CountedOnlyUnder(C6_Outcome(outcome'))
                /\ passed_outcomes' = passed_outcomes
                /\ IF C6_Outcome(outcome') = "accept"
                   THEN /\ Len(candidates') = Len(candidates) + 1
                        /\ IsPrefix(candidates, candidates')
                        /\ Last(candidates').market_id = market.id
                        /\ Last(candidates').outcome_id = outcome'.id
                        /\ Last(candidates').ask_price = outcome'.best_ask[1]
                        /\ Last(candidates').available_size = outcome'.best_ask_size[1]
                   ELSE candidates' = candidates]_vars

\* a scan that rejected one market as too late, and in a passing market
\* emitted one outcome and counted another, low in price and in liquidity,
\* under price_low alone
C6_Witness ==
    /\ pc = "scanned"
    /\ reason_counts["too_late"] = 1
    /\ Len(candidates) = 1
    /\ reason_counts["price_low"] = 1
    /\ reason_counts["low_liquidity"] = 0
    /\ outcome.best_ask = Some(DefaultMinProbabilityPrice - 1)
    /\ outcome.best_ask_size = Some(DefaultMinLiquidity - 1)

C7_Accepted ==
    /\ Len(candidates') = Len(candidates) + 1
    /\ Last(candidates').ask_price = outcome'.best_ask[1]
    /\ reason_counts' = reason_counts

C7_RejectedAs(r) ==
    /\ candidates' = candidates
    /\ reason_counts' = [reason_counts EXCEPT ![r] = @ + 1]

\* C7. Price bounds are inclusive: for an outcome of a market that passes
\* the time checks, with a known best ask and a best-ask size >=
\* min_liquidity, a best ask equal to min_probability_price is accepted and
\* one equal to max_probability_price is accepted; one unit below the minimum
\* is rejected as price_low, one unit above the maximum as price_high.
C7_PriceBoundsInclusive ==
    [][(/\ pc = "scan_outcome"
        /\ outcomes_left' = outcomes_left - 1
        /\ C6_Market(market) = "pass"
        /\ outcome'.best_ask # None
        /\ outcome'.best_ask_size # None
        /\ outcome'.best_ask_size[1] >= trading.min_liquidity)
       => /\ outcome'.best_ask[1] = trading.min_probability_price => C7_Accepted
          /\ outcome'.best_ask[1] = trading.max_probability_price => C7_Accepted
          /\ outcome'.best_ask[1] = trading.min_probability_price - 1
             => C7_RejectedAs("price_low")
          /\ outcome'.best_ask[1] = trading.max_probability_price + 1
             => C7_RejectedAs("price_high")]_vars

\* one market whose four outcomes sit on and next to the two bounds
C7_Witness ==
    /\ Len(candidates) = 2
    /\ candidates[1].ask_price = trading.min_probability_price
    /\ candidates[2].ask_price = trading.max_probability_price
    /\ reason_counts["price_low"] = 1
    /\ reason_counts["price_high"] = 1
    /\ reason_counts["low_liquidity"] = 0
    /\ reason_counts["no_best_ask"] = 0

C8_Hours(m) == m.end_date_iso.wall - ScanNow

\* C8. Time bound is upper-only and inclusive: a market whose resolution
\* time is exactly max_time_to_resolution_hours after now passes the time
\* check, one unit further away is rejected as too_late, and a market whose
\* resolution time is in the past passes and its outcomes can become
\* candidates.  (The resolution time is the one parsed from the end date.)
C8_TimeBound ==
    [][/\ (/\ pc = "scan_market"
           /\ scanned' = scanned + 1
           /\ market'.end_date_iso.kind = "iso")
          => /\ C8_Hours(market') = trading.max_time_to_resolution_hours
                => /\ reason_counts' = reason_counts
                   /\ passed_outcomes' = passed_outcomes + outcomes_left'
             /\ C8_Hours(market') = trading.max_time_to_resolution_hours + 1
                => /\ reason_counts' = [reason_counts EXCEPT !["too_late"] = @ + 1]
                   /\ outcomes_left' = 0
             /\ C8_Hours(market') < 0
                => /\ reason_counts' = reason_counts
                   /\ passed_outcomes' = passed_outcomes + outcomes_left'
       /\ (/\ pc = "scan_outcome"
           /\ outcomes_left' = outcomes_left - 1
           /\ C8_Hours(market) < 0
           /\ C6_Outcome(outcome') = "accept")
          => /\ Len(candidates') = Len(candidates) + 1
             /\ Last(candidates').time_to_resolve_hours = C8_Hours(market)
             /\ Last(candidates').time_to_resolve_hours < 0]_vars

\* a candidate of a market already resolved, one of a market exactly
\* max_time_to_resolution_hours away, and a market rejected one hour beyond
C8_Witness ==
    /\ reason_counts["too_late"] = 1
    /\ \E i \in 1..Len(candidates) : candidates[i].time_to_resolve_hours < 0
    /\ \E i \in 1..Len(candidates) :
          candidates[i].time_to_resolve_hours = trading.max_time_to_resolution_hours
    /\ market.end_date_iso = IsoEnd(ScanNow + trading.max_time_to_resolution_hours + 1, 0)

C9_Recorded(c, s) ==
    /\ Len(orders') = Len(orders) + 1
    /\ IsPrefix(orders, orders')
    /\ Last(orders').price = c.ask_price
    /\ Last(orders').size = s
    /\ Last(orders').market_id = c.market_id
    /\ Last(orders').outcome_id = c.outcome_id
    /\ open_positions' =
          Append(open_positions,
                 [market_id |-> c.market_id, outcome_id |-> c.outcome_id,
                  entry_price |-> c.ask_price, size |-> s])
    /\ Len(trades') = Len(trades) + 1
    /\ IsPrefix(trades, trades')
    /\ Last(trades').size = s
    /\ Last(trades').price = c.ask_price

C9_NothingRecorded ==
    orders' = orders /\ open_positions' = open_positions /\ trades' = trades

\* the for loop goes to the next candidate, or run_once returns after the last
C9_MovesOn ==
    \/ idx < Len(candidates) /\ pc' = "open" /\ idx' = idx + 1 /\ candidates' = candidates
    \/ idx = Len(candidates) /\ pc' \in {"done", "sleep"}

\* C9. Per-candidate execution step: within a cycle the candidates are
\* processed in the order the Scanner returned them; for each, a computed
\* size below min_trade_size places no order, appends no position and emits
\* no trade record; otherwise exactly one place_order call is made with price
\* = candidate ask and size = computed size, and after it returns exactly one
\* position (entry price = ask, size = computed size) is appended and exactly
\* one trade record of that size is emitted.  Hence ledger positions = trade
\* records = place_order calls that returned.
C9_ExecutionStep ==
    /\ [](Len(open_positions) = Len(trades) /\ Len(trades) = Len(orders))
    /\ [](pc \in {"open", "order"} => idx \in 1..Len(candidates))
    /\ [][/\ (pc = "fetch" /\ pc' = "open") => idx' = 1 /\ C9_NothingRecorded
          /\ pc = "open"
             => LET c == candidates[idx]
                    s == size_for_market(usdc_balance, trading, open_positions, c)
                IN  IF s < trading.min_trade_size
                    THEN C9_NothingRecorded /\ C9_MovesOn
                    ELSE IF mode = "paper"
                    THEN C9_Recorded(c, s) /\ C9_MovesOn
                    ELSE /\ C9_NothingRecorded
                         /\ pc' = "order" /\ size' = s
                         /\ idx' = idx /\ candidates' = candidates
          /\ pc = "order"
             => \/ /\ C9_NothingRecorded
                   /\ pc' \in {"order", "crashed"}
                   /\ idx' = idx /\ candidates' = candidates /\ size' = size
                \/ C9_Recorded(candidates[idx], size) /\ C9_MovesOn
          /\ pc \notin {"open", "order"} => C9_NothingRecorded]_vars

\* the second candidate of a cycle is up, the first was recorded, and the
\* size left for it is min_trade_size exactly
C9_Witness ==
    /\ pc = "open"
    /\ idx = 2
    /\ size_for_market(usdc_balance, trading, open_positions, candidates[idx])
          = trading.min_trade_size
    /\ Len(open_positions) >= 1
    /\ Last(open_positions).market_id = candidates[1].market_id
    /\ Len(orders) = Len(open_positions)

\* C10. The ledger is append-only: the ledger of a later state has the ledger
\* of every earlier state as a prefix; nothing is removed, reordered or
\* modified, so its length and total size never decrease.
C10_AppendOnly ==
    [][/\ IsPrefix(open_positions, open_positions')
       /\ Len(open_positions') >= Len(open_positions)
       /\ SumSizes(open_positions') >= SumSizes(open_positions)]_vars

\* positions of an earlier cycle are still there in a later one
C10_Witness ==
    /\ cycles = 2
    /\ pc = "open"
    /\ idx = 1
    /\ Len(open_positions) >= 1

C11_LedgerKept ==
    open_positions' = open_positions /\ trades' = trades /\ orders' = orders

\* the third attempt of the Gateway call in progress fails
C11_CallExhausted ==
    pc \in {"fetch", "order"} /\ attempts = 2 /\ attempts' = 3

\* C11. Unrecoverable cycle error: when fetch_markets or a live place_order
\* raises after its third failed attempt, nothing catches it: the process
\* stops there, the candidate in hand and the ones after it are not
\* processed, no position, trade record or order result is added, the
\* ledger is the one before the error, and no further cycle starts, in
\* continuous mode as in single-pass mode.
C11_UnrecoverableError ==
    /\ [](pc = "crashed" => attempts = 3 /\ Len(open_positions) = Len(trades))
    /\ [][/\ C11_CallExhausted
             => /\ pc' = "crashed"
                /\ C11_LedgerKept
                /\ idx' = idx /\ candidates' = candidates /\ cycles' = cycles
          /\ pc' = "crashed" /\ pc # "crashed"
             => /\ C11_CallExhausted
                /\ pc = "order" => mode = "live"
          /\ pc = "crashed"
             => /\ pc' = "crashed"
                /\ C11_LedgerKept
                /\ idx' = idx /\ cycles' = cycles]_vars

\* continuous mode, second cycle: the order of the first of two candidates
\* failed three times; the position of the first cycle is all the ledger has
C11_Witness ==
    /\ pc = "crashed"
    /\ ~once
    /\ mode = "live"
    /\ cycles = 2
    /\ idx = 1
    /\ Len(candidates) = 2
    /\ Len(open_positions) = 1
    /\ Len(trades) = 1

C12_InCycle == {"fetch", "open", "order"}

\* C12. Loop modes: in single-pass mode exactly one cycle is run and the
\* loop then stops for good (it does stop, Gateway calls returning or failing
\* within their retries); in continuous mode a cycle that completes is never
\* the end: it is followed by a sleep of scan_interval_seconds, and the sleep
\* by another cycle (as long as the model's cycle count allows one).
C12_LoopModes ==
    /\ [](once => cycles <= 1)
    /\ [](pc = "done" => once /\ cycles = 1)
    /\ [](pc = "sleep" => ~once)
    /\ [][/\ pc = "done" => pc' = "done"
          /\ (pc \in C12_InCycle /\ pc' \notin C12_InCycle \cup {"crashed"})
             => pc' = (IF once THEN "done" ELSE "sleep")
          /\ pc = "sleep"
             => pc' = "idle" /\ slept' = trading.scan_interval_seconds
          /\ pc = "idle" => pc' = "fetch" /\ cycles' = cycles + 1]_vars
    /\ [](once => <>(pc \in {"done", "crashed"}))
    /\ (~once /\ pc = "sleep") ~> (pc = "idle")
    /\ (~once /\ pc = "idle" /\ cycles < MaxCycles) ~> (pc = "fetch")

\* continuous mode: the first cycle completed, the loop slept
\* scan_interval_seconds and the second cycle has fetched its markets
C12_Witness ==
    /\ ~once
    /\ cycles = 2
    /\ slept = trading.scan_interval_seconds
    /\ pc = "open"
    /\ Len(open_positions) = 0

\* the statuses of OrderReplies that report the order as accepted
C13_Accepted(status) == status = Some("filled")

\* C13. A Position is created only when an order is accepted: in every
\* reachable state each ledger position is the one of a place_order call
\* whose result reported the order as accepted; a live order answered with a
\* rejected or a missing status leaves no ledger position.
C13_PositionOnlyWhenAccepted ==
    /\ Len(open_positions) = Len(orders)
    /\ \A i \in 1..Len(open_positions) :
          /\ orders[i].market_id = open_positions[i].market_id
          /\ orders[i].size = open_positions[i].size
          /\ C13_Accepted(orders[i].status)

\* ledgers of up to MaxLedger positions of sizes 0 .. MaxAmount
C14_Ledgers ==
    {[i \in 1..Len(ss) |-> SizerPosition(ss[i])] :
        ss \in SeqsUpTo(0..MaxAmount, MaxLedger)}

\* C14. Placeholder balance means zero capital: with the balance
\* get_balances reports, 0, size_for_market returns 0 for the candidate in
\* hand whatever the ledger and the configuration, so with min_trade_size > 0
\* no order is ever placed, upstream receives no order, and ledger and trade
\* records stay empty after any sequence of cycles, in live and in paper mode.
C14_PlaceholderBalance ==
    (usdc_balance = 0 /\ trading.min_trade_size > 0)
    => /\ open_positions = <<>>
       /\ trades = <<>>
       /\ orders = <<>>
       /\ pc # "order"
       /\ sent = 0
       /\ pc = "open"
          => \A ps \in C14_Ledgers :
                size_for_market(usdc_balance, trading, ps, candidates[idx]) = 0

\* live mode, second cycle, second candidate: all candidates so far were
\* skipped
C14_Witness ==
    /\ usdc_balance = 0
    /\ mode = "live"
    /\ cycles = 2
    /\ pc = "open"
    /\ idx = 2
    /\ open_positions = <<>>

\* C15. Live order duplication: one live place_order call posts the same
\* order once per attempt, with nothing that lets upstream tell a retry from
\* a new order; upstream receives it at most 3 times per call, more than
\* once when attempts that reached upstream were seen as failed by the
\* client, and the ledger gets one position for a call that returned and
\* none for a call that raised, however many submissions there were.
C15_OrderDuplication ==
    /\ [](sent <= 3 /\ attempts <= 3)
    /\ [](pc \in {"order", "crashed"} => sent <= attempts)
    /\ [](Len(open_positions) = Len(orders))
    /\ [][pc = "order"
          => \/ /\ pc' \in {"order", "crashed"}
                /\ attempts' = attempts + 1
                /\ sent' \in {sent, sent + 1}
                /\ open_positions' = open_positions
                /\ orders' = orders
             \/ /\ pc' \notin {"order", "crashed"}
                /\ sent' = sent + 1
                /\ Len(open_positions') = Len(open_positions) + 1
                /\ Len(orders') = Len(orders) + 1
                /\ Last(open_positions').size = size
                /\ Last(orders').size = size
                /\ Last(orders').price = candidates[idx].ask_price]_vars

\* the one place_order call made so far has returned: upstream took the
\* order three times, two of them seen as failures by the client, and the
\* ledger has one position
C15_Witness ==
    /\ mode = "live"
    /\ sent = 3
    /\ Len(orders) = 1
    /\ Len(open_positions) = 1
    /\ pc \in {"done", "sleep"}

\* the value fetch_markets reads for a scalar field: the order book's, else
\* the outcome's
C16_Field(f) ==
    IF raw.order_book[f].kind \in {"num", "numstr", "badstr"}
       /\ ~(raw.order_book[f].kind = "num" /\ raw.order_book[f].num = 0)
    THEN raw.order_book[f]
    ELSE raw.outcome[f]

C16_NotANumber(v) == v.kind \in {"missing", "null", "badstr", "emptystr"}

C16_HasLevels ==
    \/ raw.order_book.asks.kind = "list" /\ raw.order_book.asks.levels # <<>>
    \/ raw.outcome.asks.kind = "list" /\ raw.outcome.asks.levels # <<>>

\* every raw ask level of the item is a dict
C16_LevelsAreDicts ==
    /\ \A i \in 1..Len(raw.order_book.asks.levels) :
          raw.order_book.asks.levels[i].shape = "dict"
    /\ \A i \in 1..Len(raw.outcome.asks.levels) :
          raw.outcome.asks.levels[i].shape = "dict"

\* C16. Malformed numeric values never fail a fetch: for every outcome item
\* whose best-bid, best-ask or best-ask-size field, or the price or size of a
\* raw ask level, is missing or not a number, fetch_markets does not raise,
\* on the path through the raw ask levels either, and a scalar field that is
\* missing or not a number is reported as unknown when no ask level stands
\* in for it.
C16_MalformedNeverFails ==
    C16_LevelsAreDicts
    => /\ pc # "parse_raised"
       /\ parsed.state = "ok"
       /\ pc # "parse"
          => /\ C16_NotANumber(C16_Field("bestBid")) => parsed.best_bid = None
             /\ (C16_NotANumber(C16_Field("bestAsk")) /\ ~C16_HasLevels)
                => parsed.best_ask = None
             /\ (C16_NotANumber(C16_Field("bestAskSize")) /\ ~C16_HasLevels)
                => parsed.best_ask_size = None

\* the first cycle has run to its end
C17_FirstCycleOver == cycles = 1 /\ pc \in {"done", "sleep", "idle"}

\* C17. End-to-end scenario: default thresholds and limits, a balance query
\* returning 30, an empty ledger and one market resolving in 10 hours with
\* one outcome (best ask 0.98, best-ask size 10): the first cycle emits
\* exactly one candidate, sizes the order at 5, appends exactly one position
\* (entry price 0.98, size 5) and emits exactly one trade record, of expected
\* payout 5 x 0.02 = 0.1 (100 thousandths).
C17_Scenario ==
    /\ (cycles = 1 /\ pc \in {"open", "order"})
       => /\ Len(candidates) = 1
          /\ candidates[1].market_id = 1
          /\ candidates[1].ask_price = 980
          /\ candidates[1].time_to_resolve_hours = 10
          /\ candidates[1].available_size = 10
          /\ open_positions = <<>>
    /\ (cycles = 1 /\ pc = "order") => size = 5
    /\ C17_FirstCycleOver
       => /\ Len(open_positions) = 1
          /\ open_positions[1].entry_price = 980
          /\ open_positions[1].size = 5
          /\ open_positions[1].market_id = 1
          /\ Len(orders) = 1
          /\ orders[1].size = 5
          /\ orders[1].price = 980
          /\ Len(trades) = 1
          /\ trades[1].size = 5
          /\ trades[1].price = 980
          /\ trades[1].expected_payout = 100

\* single-pass mode, live: the cycle is over and the process has exited
C17_Witness ==
    /\ pc = "done"
    /\ mode = "live"
    /\ cycles = 1
    /\ Len(open_positions) = 1
    /\ open_positions[1].size = 5
    /\ trades[1].expected_payout = 100

\* the ledger already holds a position of the candidate's market and outcome
C18_Held(c) ==
    \E i \in 1..Len(open_positions) :
        /\ open_positions[i].market_id = c.market_id
        /\ open_positions[i].outcome_id = c.outcome_id

C18_Remaining ==
    Max2(0, Min2(usdc_balance, trading.max_balance_to_use) - SumSizes(open_positions))

\* C18. No deduplication against open positions: a candidate whose market
\* and outcome the ledger already holds (from an earlier cycle, or from
\* earlier in the same scan) is sized and opened again as long as capital
\* remains, so the ledger can hold several positions of one market and
\* outcome; it is skipped only when the remaining capital is below
\* min_trade_size.  (Configurations as the defaults: min_liquidity and
\* max_position_per_market are not below min_trade_size, so a candidate's
\* size and the per-market limit never cause a skip.)
C18_NoDeduplication ==
    [][(pc = "open" /\ C18_Held(candidates[idx]))
       => IF C18_Remaining < trading.min_trade_size
          THEN /\ open_positions' = open_positions
               /\ orders' = orders
               /\ pc' # "order"
          ELSE IF mode = "paper"
          THEN /\ Len(open_positions') = Len(open_positions) + 1
               /\ Last(open_positions').market_id = candidates[idx].market_id
               /\ Last(open_positions').outcome_id = candidates[idx].outcome_id
               /\ Last(open_positions').size >= trading.min_trade_size
          ELSE /\ pc' = "order"
               /\ size' >= trading.min_trade_size]_vars

\* three positions of one market and outcome, two opened in the first scan
\* and one in the second, which used up the capital
C18_Witness ==
    /\ cycles = 2
    /\ Len(open_positions) = 3
    /\ \A i \in 1..3 :
          /\ open_positions[i].market_id = open_positions[1].market_id
          /\ open_positions[i].outcome_id = open_positions[1].outcome_id
    /\ C18_Remaining = 0

\* C19. Open-exposure limit: after any sequence of cycles the sizes of the
\* ledger positions sum to at most the configured max_open_exposure.
C19_OpenExposureLimit ==
    SumSizes(open_positions) <= trading.max_open_exposure

====
